---------------------------- MODULE Spec2Model ----------------------------
(***************************************************************************)
(* Notification generator (src/main.py): apartment-list normaliser, random *)
(* timestamp sampler, template renderer, document/archive writer and the   *)
(* settings/history store.                                                 *)
(*                                                                         *)
(* Text is a sequence of characters; a character is a one-element label.   *)
(* Cyrillic letters of the source literals are written in transliteration  *)
(* with the prefix "c:" ("c:Zh" is U+0416, "c:yu" is U+044E, "c:No" is     *)
(* U+2116 ...), one label per character, so that str.replace works on the  *)
(* same character boundaries as in the program and a Cyrillic letter never *)
(* equals its Latin look-alike.  "NL" is the newline, "SUP2" is U+00B2     *)
(* (superscript two) and "AR3" is U+0663 (Arabic-Indic digit three).       *)
(***************************************************************************)
EXTENDS Integers, Sequences, FiniteSets, TLC

VARIABLES
    parse,          \* parse_apartments under test: [pc, text, uniq]
    sampler,        \* random_datetime_between under test: [pc, args, out]
    render,         \* the rendering block of on_generate under test
    settingsFile,   \* content of SETTINGS_FILE
    historyFile,    \* content of HISTORY_FILE
    folders,        \* output folders that exist under the working directory
    docs,           \* .docx files on disk: path -> the run that wrote it
    archives,       \* .zip files on disk: path -> [entries, complete]
    clock,          \* datetime.now(), in whole seconds
    runs,           \* number of on_generate invocations so far
    last            \* what the last handler invocation did and reported

toolVars == <<parse, sampler, render>>
diskVars == <<settingsFile, historyFile, folders, docs, archives>>
appVars  == <<settingsFile, historyFile, folders, docs, archives, clock, runs, last>>
vars     == <<parse, sampler, render, settingsFile, historyFile, folders, docs,
              archives, clock, runs, last>>

-----------------------------------------------------------------------------
(* Sequence helpers *)

Range(s) == {s[i] : i \in 1..Len(s)}

NoDup(s) == \A i, j \in 1..Len(s) : i # j => s[i] # s[j]

IsPrefix(s, t) == Len(s) <= Len(t) /\ \A i \in 1..Len(s) : s[i] = t[i]

RECURSIVE Concat(_)
Concat(ss) == IF ss = <<>> THEN <<>> ELSE Head(ss) \o Concat(Tail(ss))

\* all sequences over S of length at most n
SeqsUpTo(S, n) == UNION {[1..k -> S] : k \in 0..n}

-----------------------------------------------------------------------------
(* Python str primitives used by the program *)

\* str.isspace() for the characters of the model
Whitespace == {" ", "NL"}

\* str.isdigit(): true of the decimal digits of every script and also of
\* digit characters that are not decimal, such as the superscript digits
IsDigit(ch) == ch \in {"0", "1", "2", "3", "4", "5", "6", "7", "8", "9", "AR3", "SUP2"}

\* the ASCII decimal digits
IsAsciiDigit(ch) == ch \in {"0", "1", "2", "3", "4", "5", "6", "7", "8", "9"}

\* str.isdecimal(): the characters that form base-10 numbers
IsDecimal(ch) == IsAsciiDigit(ch) \/ ch = "AR3"

\* s.startswith(old, i): old occurs in s at position i (1-based)
MatchAt(s, old, i) ==
    /\ i + Len(old) - 1 <= Len(s)
    /\ \A k \in 1..Len(old) : s[i + k - 1] = old[k]

\* str.replace(old, new) for non-empty old: leftmost non-overlapping
\* occurrences, the replacement text is not rescanned
RECURSIVE ReplaceFrom(_, _, _, _)
ReplaceFrom(s, old, new, i) ==
    IF i > Len(s) THEN <<>>
    ELSE IF MatchAt(s, old, i) THEN new \o ReplaceFrom(s, old, new, i + Len(old))
    ELSE <<s[i]>> \o ReplaceFrom(s, old, new, i + 1)

Replace(s, old, new) == ReplaceFrom(s, old, new, 1)

Contains(s, old) == \E i \in 1..Len(s) : MatchAt(s, old, i)

\* str.strip(): drop leading and trailing whitespace
RECURSIVE LStrip(_)
LStrip(s) == IF s # <<>> /\ Head(s) \in Whitespace THEN LStrip(Tail(s)) ELSE s

RECURSIVE RStrip(_)
RStrip(s) ==
    IF s # <<>> /\ s[Len(s)] \in Whitespace THEN RStrip(SubSeq(s, 1, Len(s) - 1)) ELSE s

Strip(s) == RStrip(LStrip(s))

\* str.split() with no argument: maximal runs of non-whitespace characters
RECURSIVE SplitFrom(_, _, _)
SplitFrom(s, i, cur) ==
    IF i > Len(s) THEN (IF cur = <<>> THEN <<>> ELSE <<cur>>)
    ELSE IF s[i] \in Whitespace
         THEN (IF cur = <<>> THEN <<>> ELSE <<cur>>) \o SplitFrom(s, i + 1, <<>>)
         ELSE SplitFrom(s, i + 1, Append(cur, s[i]))

Split(s) == SplitFrom(s, 1, <<>>)

\* "".join(ch for ch in token if ch.isdigit())
DigitsOf(token) == SelectSeq(token, IsDigit)

-----------------------------------------------------------------------------
(* parse_apartments, src/main.py 56-71 *)

\* lines 57-64: one digit string per token that has a digit
RECURSIVE Parts(_)
Parts(tokens) ==
    IF tokens = <<>> THEN <<>>
    ELSE LET token == Strip(Head(tokens))
             num   == DigitsOf(token)
         IN  IF token = <<>> THEN Parts(Tail(tokens))
             ELSE IF num # <<>> THEN <<num>> \o Parts(Tail(tokens))
             ELSE Parts(Tail(tokens))

\* lines 65-70: keep the first occurrence of each part
RECURSIVE Uniq(_, _)
Uniq(parts, seen) ==
    IF parts = <<>> THEN <<>>
    ELSE IF Head(parts) \in seen THEN Uniq(Tail(parts), seen)
    ELSE <<Head(parts)>> \o Uniq(Tail(parts), seen \cup {Head(parts)})

parse_apartments(text) == Uniq(Parts(Split(Replace(text, <<",">>, <<" ">>))), {})

-----------------------------------------------------------------------------
(* datetime arithmetic used by random_datetime_between *)

\* a datetime.date is [year, month, day]; a datetime.time is [hour, minute, second]
IsLeap(y) == (y % 4 = 0) /\ ((y % 100 # 0) \/ (y % 400 = 0))

DaysInMonth(y, m) ==
    IF m = 2 THEN (IF IsLeap(y) THEN 29 ELSE 28)
    ELSE IF m \in {4, 6, 9, 11} THEN 30 ELSE 31

RECURSIVE DaysBeforeMonth(_, _)
DaysBeforeMonth(y, m) ==
    IF m = 1 THEN 0 ELSE DaysBeforeMonth(y, m - 1) + DaysInMonth(y, m - 1)

DaysBeforeYear(y) ==
    (y - 1) * 365 + ((y - 1) \div 4) - ((y - 1) \div 100) + ((y - 1) \div 400)

\* date.toordinal()
Ordinal(d) == DaysBeforeYear(d.year) + DaysBeforeMonth(d.year, d.month) + d.day

\* date.fromordinal(n), as datetime._ord2ymd computes it
FromOrdinal(ordinal) ==
    LET n0   == ordinal - 1
        n400 == n0 \div 146097
        r400 == n0 % 146097
        n100 == r400 \div 36524
        r100 == r400 % 36524
        n4   == r100 \div 1461
        r4   == r100 % 1461
        n1   == r4 \div 365
        n    == r4 % 365
        year == n400 * 400 + 1 + n100 * 100 + n4 * 4 + n1
        leapyear == (n1 = 3) /\ ((n4 # 24) \/ (n100 = 3))
        guess == (n + 50) \div 32
        before(m) == DaysBeforeMonth(year, m)
        month == IF before(guess) > n THEN guess - 1 ELSE guess
    IN  IF n1 = 4 \/ n100 = 4
            THEN [year |-> year - 1, month |-> 12, day |-> 31]
            ELSE [year |-> year, month |-> month, day |-> n - before(month) + 1]

\* date + timedelta(days=k)
AddDays(d, k) == FromOrdinal(Ordinal(d) + k)

Max(a, b) == IF a >= b THEN a ELSE b

-----------------------------------------------------------------------------
(* random_datetime_between, src/main.py 73-84 *)

\* the day span taken as a distance, not clamped at zero
DaySpan_abs(start_date, end_date) ==
    IF Ordinal(end_date) >= Ordinal(start_date)
        THEN Ordinal(end_date) - Ordinal(start_date)
        ELSE Ordinal(start_date) - Ordinal(end_date)

\* lines 74-75: the upper bound of the first random.randint
DaySpan(start_date, end_date) == Max(0, Ordinal(end_date) - Ordinal(start_date))

\* lines 77-78
Seconds(t) == t.hour * 3600 + t.minute * 60 + t.second

\* lines 78-80: the upper bound of the second random.randint
EnSeconds(start_time, end_time) ==
    IF Seconds(end_time) < Seconds(start_time) THEN Seconds(start_time)
    ELSE Seconds(end_time)

\* lines 76, 82-84: the datetime built from the two draws
MakeDatetime(start_date, rand_day, rand_seconds) ==
    LET chosen_date == AddDays(start_date, rand_day)
        hours == rand_seconds \div 3600
        mins  == (rand_seconds % 3600) \div 60
    IN  [year |-> chosen_date.year, month |-> chosen_date.month,
         day |-> chosen_date.day, hour |-> hours, minute |-> mins, second |-> 0]

\* every value the function can return: random.randint(a, b) is any integer
\* of a..b
random_datetime_between(start_date, end_date, start_time, end_time) ==
    { MakeDatetime(start_date, rand_day, rand_seconds) :
        rand_day \in 0..DaySpan(start_date, end_date),
        rand_seconds \in Seconds(start_time)..EnSeconds(start_time, end_time) }

-----------------------------------------------------------------------------
(* The rendering block of on_generate, src/main.py 267-277 *)

\* line 270, 8 characters
OldSalyut1 ==
    <<"c:Zh", "c:K", " ", "c:S", "c:a", "c:l", "c:yu", "c:t">>

\* line 271, 8 characters
OldSalyut2 ==
    <<"c:zh", "c:k", " ", "c:S", "c:a", "c:l", "c:yu", "c:t">>

\* line 272, 8 characters
OldSalyut3 ==
    <<"c:zh", "c:k", " ", "c:s", "c:a", "c:l", "c:yu", "c:t">>

\* line 270-272, 20 characters
NewName ==
    <<"c:Zh", "c:K", " ", "c:K", "c:r", "c:a", "c:s", "c:n", "c:y", "c:j",
      " ", "c:M", "c:e", "c:t", "c:a", "c:l", "c:l", "c:i", "c:s", "c:t">>

\* line 273, 25 characters
OldAddress ==
    <<"c:u", "c:l", ".", " ", "5", "0", " ", "c:l", "c:e", "c:t", " ", "c:V",
      "c:L", "c:K", "c:S", "c:M", ",", " ", "c:d", ".", " ", "1", "1", "/",
      "1">>

\* line 273, 23 characters
NewAddress ==
    <<"c:u", "c:l", ".", " ", "c:G", "c:r", "c:a", "c:zh", "c:d", "c:a",
      "c:n", "c:s", "c:k", "c:a", "c:ya", ",", " ", "c:d", ".", " ", "1",
      "/", "1">>

\* line 274, 11 characters
KvartiraNo ==
    <<"c:K", "c:v", "c:a", "c:r", "c:t", "c:i", "c:r", "c:a", " ", "c:No",
      " ">>

\* line 275, 8 characters
PhFlat ==
    <<"{", "{", "f", "l", "a", "t", "}", "}">>

\* line 276, 8 characters
PhDate ==
    <<"{", "{", "d", "a", "t", "e", "}", "}">>

\* line 277, 8 characters
PhTime ==
    <<"{", "{", "t", "i", "m", "e", "}", "}">>

DigitChar(n) == <<"0", "1", "2", "3", "4", "5", "6", "7", "8", "9">>[n + 1]

\* strftime %d, %m, %H, %M: two digits, zero padded
Pad2(n) == <<DigitChar((n \div 10) % 10), DigitChar(n % 10)>>

\* strftime %Y: four digits, zero padded
Pad4(n) == Pad2(n \div 100) \o Pad2(n % 100)

\* line 267: dt.strftime("%d.%m.%Y")
DateStr(dt) == Pad2(dt.day) \o <<".">> \o Pad2(dt.month) \o <<".">> \o Pad4(dt.year)

\* line 268: dt.strftime("%H:%M")
TimeStr(dt) == Pad2(dt.hour) \o <<":">> \o Pad2(dt.minute)

\* the same list with {{flat}} substituted before the fixed phrases
Replacements_flatFirst(apt, date_str, time_str) ==
    << [old |-> PhFlat,     new |-> apt],
       [old |-> OldSalyut1, new |-> NewName],
       [old |-> OldSalyut2, new |-> NewName],
       [old |-> OldSalyut3, new |-> NewName],
       [old |-> OldAddress, new |-> NewAddress],
       [old |-> KvartiraNo \o <<"1", "9">>, new |-> KvartiraNo \o apt],
       [old |-> PhDate,     new |-> date_str],
       [old |-> PhTime,     new |-> time_str] >>

\* lines 270-277: the text.replace calls, in program order
Replacements(apt, date_str, time_str) ==
    << [old |-> OldSalyut1, new |-> NewName],
       [old |-> OldSalyut2, new |-> NewName],
       [old |-> OldSalyut3, new |-> NewName],
       [old |-> OldAddress, new |-> NewAddress],
       [old |-> KvartiraNo \o <<"1", "9">>, new |-> KvartiraNo \o apt],
       [old |-> PhFlat,     new |-> apt],
       [old |-> PhDate,     new |-> date_str],
       [old |-> PhTime,     new |-> time_str] >>

\* the replacements of one document
RenderSteps(apt, dt) == Replacements(apt, DateStr(dt), TimeStr(dt))

\* lines 269-277 as one function: text after the first k replacements
RECURSIVE RenderUpTo(_, _, _)
RenderUpTo(text, steps, k) ==
    IF k = 0 THEN text
    ELSE Replace(RenderUpTo(text, steps, k - 1), steps[k].old, steps[k].new)

RenderText(template_text, apt, dt) ==
    RenderUpTo(template_text, RenderSteps(apt, dt), Len(RenderSteps(apt, dt)))

-----------------------------------------------------------------------------
(* Settings and history store, src/main.py 25-54 *)

\* What a JSON file of the application directory can hold:
\*   "missing"    the file does not exist
\*   "unreadable" the file exists and open() raises
\*   "malformed"  the file is not valid JSON
\*   "falsy"      valid JSON that is falsy in Python: {}, [], 0, null, ""
\*   "nondict" / "nonlist"  valid JSON of another shape than the program writes
\*   "dict" / "list"        the shape the program writes
NoData == [template |-> <<>>, apartments |-> <<>>, archive_name |-> <<>>]

\* lines 31-38: the value load_settings returns and whether it raised
load_settings(file) ==
    IF file.kind \in {"missing", "unreadable", "malformed"}
        THEN [raised |-> FALSE, kind |-> "falsy", data |-> NoData]
        ELSE [raised |-> FALSE, kind |-> file.kind, data |-> file.data]

\* lines 40-42
save_settings(data) == [kind |-> "dict", data |-> data]

\* lines 45-51 with the history read from scratch on every call
LoadHistory_forget(file) == [islist |-> TRUE, entries |-> <<>>]

\* lines 45-51: the value history.append is called on
LoadHistory(file) ==
    IF file.kind \in {"missing", "unreadable", "malformed"}
        THEN [islist |-> TRUE, entries |-> <<>>]
    ELSE IF file.kind = "list"
        THEN [islist |-> TRUE, entries |-> file.entries]
    ELSE [islist |-> FALSE, entries |-> <<>>]

\* lines 44-54: append_history(entry) on a history file; write is what the
\* final open(..., "w") / json.dump does: "ok" or "dump_fails" (the file was
\* truncated by open and is left incomplete)
append_history(file, entry, write) ==
    LET history == LoadHistory(file)
    IN  IF ~history.islist
            \* line 52: a dict, str, number ... has no append: AttributeError
            THEN [raised |-> TRUE, stage |-> "history_append", file |-> file]
        ELSE IF write = "dump_fails"
            THEN [raised |-> TRUE, stage |-> "history_write",
                  file |-> [kind |-> "malformed", entries |-> <<>>]]
        ELSE [raised |-> FALSE, stage |-> "done",
              file |-> [kind |-> "list", entries |-> Append(history.entries, entry)]]

-----------------------------------------------------------------------------
(* MainWindow.on_generate, src/main.py 245-294: the parts *)

\* sub-second steps of datetime.now() per second of the "%S" field
TicksPerSecond == 2

\* line 261: datetime.now().strftime("%Y%m%d_%H%M%S") keeps whole seconds
Timestamp(now) == Pad2(now \div TicksPerSecond)

\* line 262: Path.cwd() / f"output_notifications_{timestamp}"
OutFolder(timestamp) == <<"output_notifications_">> \o timestamp

\* every document gets the same file name
DocName_same(apt) == <<"Uvedomlenie_kv_", ".docx">>

\* line 278: f"Uvedomlenie_kv_{apt}.docx" (the Cyrillic prefix is one label)
DocName(apt) == <<"Uvedomlenie_kv_">> \o apt \o <<".docx">>

\* line 279: out_folder / filename
DocPath(out_folder, apt) == [folder |-> out_folder, name |-> DocName(apt)]

\* line 247: the template is rejected when blank after strip()
TemplateRejected(template_text) == template_text = <<>>

\* the apartment check left out
ApartmentsRejected_never(apartments) == FALSE

\* line 252: an empty apartment list is rejected
ApartmentsRejected(apartments) == apartments = <<>>

\* the failing document skipped and the loop carried on to the archive
AbortsOnDocumentFailure_never(failAt) == FALSE

\* lines 283-285: a failed make_docx_from_text ends the run (failAt = 0: none
\* of the writes fails)
AbortsOnDocumentFailure(failAt) == failAt # 0

\* lines 264-285: generated_files when the write of document failAt fails
GeneratedFiles(out_folder, apartments, failAt) ==
    [i \in 1..(IF failAt = 0 THEN Len(apartments) ELSE failAt - 1) |->
        DocPath(out_folder, apartments[i])]

\* line 286: self.archive_name.text().strip() or f"uvedomleniya_{timestamp}"
ArchiveBase(name, timestamp) ==
    IF Strip(name) # <<>> THEN Strip(name) ELSE <<"uvedomleniya_">> \o timestamp

\* line 287: Path.cwd() / f"{archive_name}.zip"
ZipPath(name, timestamp) == ArchiveBase(name, timestamp) \o <<".zip">>

\* lines 289-290: zf.write(f, arcname=f.name) for the first k generated files
ZipEntries(generated_files, k) == [i \in 1..k |-> generated_files[i].name]

\* line 291: the history entry of a run
HistoryEntry(now, generated_files, zip_path) ==
    [timestamp |-> now, count |-> Len(generated_files), archive |-> zip_path]

\* f with key k set to v (a file created or overwritten)
Put(f, k, v) == [x \in (DOMAIN f) \cup {k} |-> IF x = k THEN v ELSE f[x]]

\* lines 265-277: the texts the loop can render for the apartments, each
\* with a datetime of its own drawn by random_datetime_between
DocTexts(template_text, apartments, dt_from, dt_to, t_from, t_to) ==
    LET dts == random_datetime_between(dt_from, dt_to, t_from, t_to)
    IN  { [i \in 1..Len(apartments) |-> RenderText(template_text, apartments[i], dt[i])] :
            dt \in [1..Len(apartments) -> dts] }

\* lines 280-282: the files on disk after the writes of run r that succeed
\* (a file that exists is overwritten; the last write to a path stays)
WriteDocs(disk, generated_files, texts, r) ==
    [p \in (DOMAIN disk) \cup Range(generated_files) |->
        IF p \in Range(generated_files)
            THEN LET at == { i \in 1..Len(generated_files) : generated_files[i] = p }
                     i == CHOOSE i \in at : \A j \in at : j <= i
                 IN  [run |-> r, text |-> texts[i]]
            ELSE disk[p]]

-----------------------------------------------------------------------------
(* Bounds and input domains *)

MaxRuns == 2          \* on_generate invocations per behaviour
MaxClock == 2         \* last clock step

\* line 151: QLineEdit("uvedomleniya"), 11 Cyrillic characters
DefaultArchiveName ==
    <<"c:u", "c:v", "c:e", "c:d", "c:o", "c:m", "c:l", "c:e", "c:n", "c:i", "c:ya">>

\* what the three input widgets can hold when a handler reads them
TemplateTexts == { <<" ", "NL">>, <<" ">> \o PhFlat \o <<"NL">> }
AptTexts == { <<"a", ",", " ">>, <<"7", "a">>, <<"7", ",", "8", "NL", "7", "b">> }
ArchiveNames == { DefaultArchiveName, <<" ">> }

\* lines 255-260: what the date and time widgets hold when on_generate reads
\* them (the seconds of the time widgets are dropped)
Windows ==
    { [dt_from |-> [year |-> 2024, month |-> 2, day |-> 28],
       dt_to   |-> [year |-> 2024, month |-> 2, day |-> 29],
       t_from  |-> [hour |-> 8, minute |-> 0, second |-> 0],
       t_to    |-> [hour |-> 8, minute |-> 0, second |-> 0]] }

\* an entry a previous session left in the history file
OldEntry == [timestamp |-> 0, count |-> 3, archive |-> <<"o", "l", "d", ".zip">>]

HistoryContents ==
    { [kind |-> k, entries |-> <<>>] : k \in {"missing", "unreadable", "malformed", "nonlist"} }
    \cup { [kind |-> "list", entries |-> e] : e \in {<<>>, <<OldEntry>>} }

\* what save_settings_action finds in the widgets
SettingsInputs ==
    { [template |-> <<" ", "T", "NL">>,
       apartments |-> <<"7", ",", "8", "NL", "7", "b">>,
       archive_name |-> DefaultArchiveName] }

SettingsContents ==
    { [kind |-> k, data |-> NoData] :
        k \in {"missing", "unreadable", "malformed", "falsy", "nondict"} }

\* the report of a handler: the message box it showed (reported) or the
\* exception that left it (raised); for on_generate also what it read from
\* the widgets and its locals when it returned
Report(op, outcome, reported, raised) ==
    [op |-> op, outcome |-> outcome, reported |-> reported, raised |-> raised,
     template |-> <<>>, apts |-> <<>>, apartments |-> <<>>, generated_files |-> <<>>,
     out_folder |-> <<>>, zip_path |-> <<>>, failAt |-> 0]

-----------------------------------------------------------------------------
(* The application: initial state and handlers.  A handler reads the input *)
(* widgets when it is invoked; what they hold then is an input of the      *)
(* handler, any text the user may have typed, pasted or loaded before.     *)

ToolsIdle ==
    /\ parse = [pc |-> "idle"]
    /\ sampler = [pc |-> "idle"]
    /\ render = [pc |-> "idle"]

\* MainWindow after construction (lines 95-173) over whatever the
\* application directory holds (lines 25-29); the working directory is empty.
\* Line 101 calls _load_settings_into_ui, which main.py does not define; what
\* it would put into the widgets is among the inputs the handlers draw.
Init ==
    /\ ToolsIdle
    /\ settingsFile \in SettingsContents
    /\ historyFile \in HistoryContents
    /\ folders = {}
    /\ docs = <<>>
    /\ archives = <<>>
    /\ clock = 0
    /\ runs = 0
    /\ last = Report("none", "none", FALSE, FALSE)

\* time passes between handler invocations
Tick ==
    /\ clock < MaxClock
    /\ clock' = clock + 1
    /\ UNCHANGED <<toolVars, diskVars, runs, last>>

\* lines 205-216 (the date and time widgets are saved alongside and are not
\* part of this model)
save_settings_action ==
    \E data \in SettingsInputs :
        /\ settingsFile' = save_settings(data)
        /\ last' = Report("save_settings_action", "Saved", TRUE, FALSE)
        /\ UNCHANGED <<toolVars, historyFile, folders, docs, archives, clock, runs>>

\* lines 218-243; the texts it puts into the widgets are the inputs of the
\* handlers invoked next
load_settings_action ==
    LET s == load_settings(settingsFile)
    IN  /\ UNCHANGED <<toolVars, diskVars, clock, runs>>
        /\ IF s.kind = "falsy"
               \* line 220: "if not s"
               THEN last' = Report("load_settings_action", "NotFound", TRUE, FALSE)
           ELSE IF s.kind # "dict"
               \* line 223: s.get on a list, str or number: AttributeError
               THEN last' = Report("load_settings_action", "AttributeError", FALSE, TRUE)
           ELSE last' = Report("load_settings_action", "Loaded", TRUE, FALSE)

\* lines 245-294, with each local of the handler bound to its one value.
\* texts: the rendered text of each apartment; failAt: the
\* document whose write fails (0: none); zip: how ZipFile fares; zipped:
\* entries written before a failing zf.write; write: how the history write
\* fares
Generate(template_edit, apts_edit, archive_name, texts, failAt, zip, zipped, write) ==
    \E template_text \in {Strip(template_edit)},
       apartments \in {parse_apartments(apts_edit)},
       timestamp \in {Timestamp(clock)} :
    \E out_folder \in {OutFolder(timestamp)},
       zip_path \in {ZipPath(archive_name, timestamp)} :
    \E generated_files \in {GeneratedFiles(out_folder, apartments, failAt)} :
    LET h == append_history(historyFile, HistoryEntry(clock, generated_files, zip_path), write)
        Ret(outcome, reported, raised, reached) ==
            [op |-> "on_generate", outcome |-> outcome, reported |-> reported,
             raised |-> raised, template |-> template_edit, apts |-> apts_edit,
             apartments |-> IF reached >= 1 THEN apartments ELSE <<>>,
             generated_files |-> IF reached >= 2 THEN generated_files ELSE <<>>,
             out_folder |-> IF reached >= 2 THEN out_folder ELSE <<>>,
             zip_path |-> IF reached >= 3 THEN zip_path ELSE <<>>,
             failAt |-> IF reached >= 2 THEN failAt ELSE 0]
    IN
    /\ runs' = runs + 1
    /\ UNCHANGED <<toolVars, settingsFile, clock>>
    /\ IF TemplateRejected(template_text)
           \* lines 247-249
           THEN /\ last' = Ret("EmptyTemplate", TRUE, FALSE, 0)
                /\ UNCHANGED <<historyFile, folders, docs, archives>>
       ELSE IF ApartmentsRejected(apartments)
           \* lines 252-254
           THEN /\ last' = Ret("EmptyApartmentList", TRUE, FALSE, 1)
                /\ UNCHANGED <<historyFile, folders, docs, archives>>
       ELSE \* line 263: mkdir(parents=True, exist_ok=True); lines 265-285
            /\ folders' = folders \cup {out_folder}
            /\ docs' = WriteDocs(docs, generated_files, texts, runs + 1)
            /\ IF AbortsOnDocumentFailure(failAt)
                   \* lines 283-285
                   THEN /\ last' = Ret("DocumentWriteFailure", TRUE, FALSE, 2)
                        /\ UNCHANGED <<historyFile, archives>>
               ELSE IF zip = "open_fails"
                   \* line 288: the exception leaves on_generate
                   THEN /\ last' = Ret("ArchiveWriteFailure", FALSE, TRUE, 3)
                        /\ UNCHANGED <<historyFile, archives>>
               ELSE IF zip = "write_fails"
                   \* lines 289-290: the exception leaves on_generate
                   THEN /\ archives' = Put(archives, zip_path,
                                           [complete |-> FALSE,
                                            entries |-> ZipEntries(generated_files, zipped)])
                        /\ last' = Ret("ArchiveWriteFailure", FALSE, TRUE, 3)
                        /\ UNCHANGED historyFile
               ELSE \* lines 288-294
                    /\ archives' = Put(archives, zip_path,
                                       [complete |-> TRUE,
                                        entries |-> ZipEntries(generated_files,
                                                               Len(generated_files))])
                    /\ historyFile' = h.file
                    /\ last' = IF h.raised /\ h.stage = "history_append"
                                   THEN Ret("HistoryAppendRaised", FALSE, TRUE, 3)
                               ELSE IF h.raised
                                   THEN Ret("HistoryWriteFailure", FALSE, TRUE, 3)
                               ELSE Ret("Done", TRUE, FALSE, 3)

\* How the I/O of a run over n apartments can fare: the write of document
\* failAt fails, or ZipFile fails, or the documents and the archive are
\* written and the history write fares as write says
Fates(n) ==
    { [failAt |-> f, zip |-> "ok", zipped |-> 0, write |-> "ok"] : f \in 1..n }
    \cup { [failAt |-> 0, zip |-> "open_fails", zipped |-> 0, write |-> "ok"] }
    \cup { [failAt |-> 0, zip |-> "write_fails", zipped |-> k, write |-> "ok"] :
             k \in 0..(n - 1) }
    \cup { [failAt |-> 0, zip |-> "ok", zipped |-> 0, write |-> w] :
             w \in {"ok", "dump_fails"} }

on_generate ==
    /\ runs < MaxRuns
    /\ \E template_edit \in TemplateTexts, apts_edit \in AptTexts,
          archive_name \in ArchiveNames, w \in Windows :
        \E fate \in Fates(Len(parse_apartments(apts_edit))),
           texts \in DocTexts(Strip(template_edit), parse_apartments(apts_edit),
                              w.dt_from, w.dt_to, w.t_from, w.t_to) :
            Generate(template_edit, apts_edit, archive_name, texts,
                     fate.failAt, fate.zip, fate.zipped, fate.write)

\* Generation runs over time; the settings file plays no part in them
Next ==
    \/ Tick
    \/ on_generate

InitNoSettings == Init /\ settingsFile.kind = "missing"

Spec == InitNoSettings /\ [][Next]_vars

\* The settings handlers and generation runs at one instant
NextStore ==
    \/ save_settings_action
    \/ load_settings_action
    \/ on_generate

SpecStore == Init /\ [][NextStore]_vars

-----------------------------------------------------------------------------
(* The three functions on their own: each specification draws the inputs   *)
(* in its initial state and applies the function                           *)

AppQuiet ==
    /\ settingsFile = [kind |-> "missing", data |-> NoData]
    /\ historyFile = [kind |-> "missing", entries |-> <<>>]
    /\ folders = {}
    /\ docs = <<>>
    /\ archives = <<>>
    /\ clock = 0
    /\ runs = 0
    /\ last = Report("none", "none", FALSE, FALSE)

\* ---- parse_apartments

MaxTextLen == 4       \* longest enumerated input of parse_apartments

ParseAlphabet == {"1", "2", "a", ",", " ", "NL", "SUP2"}

\* "12, 12 13\n14a"
ExampleText == <<"1", "2", ",", " ", "1", "2", " ", "1", "3", "NL", "1", "4", "a">>

ParseInputs == SeqsUpTo(ParseAlphabet, MaxTextLen) \cup {ExampleText}

InitParse ==
    /\ parse \in {[pc |-> "call", text |-> t, uniq |-> <<>>] : t \in ParseInputs}
    /\ sampler = [pc |-> "idle"]
    /\ render = [pc |-> "idle"]
    /\ AppQuiet

ParseApartments ==
    /\ parse.pc = "call"
    /\ parse' = [parse EXCEPT !.pc = "returned", !.uniq = parse_apartments(parse.text)]
    /\ UNCHANGED <<sampler, render, appVars>>

SpecParse == InitParse /\ [][ParseApartments]_vars

\* ---- random_datetime_between

MaxDayOffset == 2     \* days enumerated after each first date

FirstDates == { [year |-> 2023, month |-> 12, day |-> 30],
                [year |-> 2024, month |-> 2, day |-> 27] }

SampleDates == { AddDays(d, k) : d \in FirstDates, k \in 0..MaxDayOffset }

SampleTimes == { [hour |-> 7, minute |-> 59, second |-> 30],
                 [hour |-> 8, minute |-> 0, second |-> 0],
                 [hour |-> 8, minute |-> 0, second |-> 45],
                 [hour |-> 8, minute |-> 1, second |-> 0] }

InitSampler ==
    /\ sampler \in { [pc |-> "call", start_date |-> sd, end_date |-> ed,
                      start_time |-> st, end_time |-> et, out |-> <<>>] :
                        sd \in SampleDates, ed \in SampleDates,
                        st \in SampleTimes, et \in SampleTimes }
    /\ parse = [pc |-> "idle"]
    /\ render = [pc |-> "idle"]
    /\ AppQuiet

RandomDatetimeBetween ==
    /\ sampler.pc = "call"
    /\ \E dt \in random_datetime_between(sampler.start_date, sampler.end_date,
                                         sampler.start_time, sampler.end_time) :
           sampler' = [sampler EXCEPT !.pc = "returned", !.out = dt]
    /\ UNCHANGED <<parse, render, appVars>>

SpecSampler == InitSampler /\ [][RandomDatetimeBetween]_vars

\* ---- rendering, one text.replace per step

MaxChunks == 2        \* pieces a template is put together from

\* "{{name}}": a placeholder the program does not know
PhUnknown == <<"{", "{", "n", "a", "m", "e", "}", "}">>

RenderChunks ==
    { OldSalyut1, OldSalyut2, OldSalyut3,
      \* a fourth case variant, which the program does not list
      <<"c:Zh", "c:K", " ", "c:s", "c:a", "c:l", "c:yu", "c:t">>,
      OldAddress,
      KvartiraNo \o <<"1", "9">>,
      KvartiraNo \o <<"1">>,
      PhFlat, PhDate, PhTime, PhUnknown,
      \* a placeholder with a brace missing, and the brace
      <<"{", "{", "f", "l", "a", "t", "}">>,
      <<"}">>,
      <<"x", "NL">> }

RenderTemplates == { Concat(cs) : cs \in SeqsUpTo(RenderChunks, MaxChunks) }

RenderApts == { <<"9">>, <<"1", "9">> }

RenderDatetimes ==
    { [year |-> 2024, month |-> 3, day |-> 1, hour |-> 8, minute |-> 5, second |-> 0] }

InitRender ==
    /\ render \in { [pc |-> "rendering", template |-> t, apt |-> a, dt |-> d,
                     text |-> t, applied |-> <<>>] :
                       t \in RenderTemplates, a \in RenderApts, d \in RenderDatetimes }
    /\ parse = [pc |-> "idle"]
    /\ sampler = [pc |-> "idle"]
    /\ AppQuiet

\* one of lines 270-277; applied lists the patterns replaced so far
RenderStep ==
    /\ render.pc = "rendering"
    /\ LET steps == RenderSteps(render.apt, render.dt)
           k == Len(render.applied) + 1
       IN  render' = [render EXCEPT
                        !.text = Replace(render.text, steps[k].old, steps[k].new),
                        !.applied = Append(render.applied, steps[k].old),
                        !.pc = IF k = Len(steps) THEN "done" ELSE "rendering"]
    /\ UNCHANGED <<parse, sampler, appVars>>

SpecRender == InitRender /\ [][RenderStep]_vars

-----------------------------------------------------------------------------
(* Properties of generation runs (Spec) *)

\* the step is a generation run
IsRun == runs' = runs + 1

\* the run got past both input checks and made its output folder
Started(report) == report.op = "on_generate" /\ report.out_folder # <<>>

\* the run wrote its archive in full
Archived(report) ==
    Started(report) /\ report.outcome \in {"Done", "HistoryAppendRaised", "HistoryWriteFailure"}

\* C1: when the write of document N fails, the run writes no archive and
\* appends no history entry and documents 1..N-1 are on disk; when no
\* document write fails, the archive the run writes holds exactly the documents
\* the run generated, one flat entry per document.
C1_ArchiveAllOrNothing ==
    [][ IsRun =>
        /\ (Started(last') /\ last'.failAt # 0) =>
              /\ last'.failAt \in 1..Len(last'.apartments)
              /\ archives' = archives
              /\ historyFile' = historyFile
              /\ Len(last'.generated_files) = last'.failAt - 1
              /\ \A i \in 1..(last'.failAt - 1) :
                    /\ last'.generated_files[i] \in DOMAIN docs'
                    /\ docs'[last'.generated_files[i]].run = runs'
        /\ (Archived(last') /\ last'.failAt = 0) =>
              /\ last'.zip_path \in DOMAIN archives'
              /\ LET a == archives'[last'.zip_path]
                     g == last'.generated_files
                 IN  /\ a.complete
                     /\ Len(a.entries) = Len(g)
                     /\ Len(g) = Len(last'.apartments)
                     /\ NoDup(a.entries)
                     /\ \A i \in 1..Len(g) :
                           /\ a.entries[i] = g[i].name
                           /\ g[i] \in DOMAIN docs'
                           /\ docs'[g[i]].run = runs'
      ]_vars

\* a run whose second document failed, after a run that wrote an archive of two
C1_Witness ==
    /\ last.outcome = "DocumentWriteFailure"
    /\ last.failAt = 2
    /\ Len(last.generated_files) = 1
    /\ \E z \in DOMAIN archives : archives[z].complete /\ Len(archives[z].entries) = 2

\* a text of whitespace only
Blank(text) == \A i \in 1..Len(text) : text[i] \in Whitespace

\* C2: a run whose template is blank after trimming, or whose apartment text
\* normalises to no identifier, creates no folder, writes no document and no
\* archive, appends no history entry and reports the rejection; no run does
\* any of these with zero apartments.
C2_RejectedBeforeIO ==
    [][ IsRun =>
        /\ (Blank(last'.template) \/ parse_apartments(last'.apts) = <<>>) =>
              /\ folders' = folders
              /\ docs' = docs
              /\ archives' = archives
              /\ historyFile' = historyFile
              /\ last'.outcome \in {"EmptyTemplate", "EmptyApartmentList"}
              /\ last'.reported
        /\ (folders' # folders \/ docs' # docs \/ archives' # archives
                \/ historyFile' # historyFile \/ Started(last')) =>
              /\ ~Blank(last'.template)
              /\ Len(last'.apartments) > 0
      ]_vars

\* a run rejected for an apartment text that is not empty and has no identifier,
\* and one rejected before it for a template of whitespace
C2_Witness ==
    /\ runs = 2
    /\ last.outcome = "EmptyApartmentList"
    /\ last.apts # <<>>
    /\ ~Blank(last.template)
    /\ folders = {}
    /\ docs = <<>>
    /\ archives = <<>>

\* C3: in a run in which no document write fails every identifier of the list
\* has its own output file, written by this run, and the count in the history
\* entry of the run is the length of the list.
C3_OneFilePerApartment ==
    [][ (IsRun /\ Started(last') /\ last'.failAt = 0) =>
        LET g == last'.generated_files
            n == Len(last'.apartments)
        IN  /\ NoDup(last'.apartments)
            /\ Len(g) = n
            /\ \A i, j \in 1..n : i # j => g[i] # g[j]
            /\ Cardinality({p \in DOMAIN docs' : docs'[p].run = runs'}) = n
            /\ \A i \in 1..n : g[i] \in DOMAIN docs' /\ docs'[g[i]].run = runs'
            /\ last'.outcome = "Done" =>
                  /\ historyFile'.kind = "list"
                  /\ historyFile'.entries[Len(historyFile'.entries)].count = n
      ]_vars

\* a completed run over two apartments (the text named one of them twice)
C3_Witness ==
    /\ last.outcome = "Done"
    /\ Len(last.apartments) = 2
    /\ Cardinality({p \in DOMAIN docs : docs[p].run = runs}) = 2
    /\ historyFile.entries[Len(historyFile.entries)].count = 2

\* C8: a failure while the archive is assembled is caught and reported to the
\* caller, not left to leave the handler as an exception, and the documents
\* stay on disk.
C8_ArchiveFailureReported ==
    (last.op = "on_generate" /\ last.outcome = "ArchiveWriteFailure") =>
        /\ last.reported
        /\ ~last.raised
        /\ \A i \in 1..Len(last.generated_files) : last.generated_files[i] \in DOMAIN docs

\* C10: no run makes or writes into an output folder that an earlier run used.
C10_FreshFolder ==
    [][ (IsRun /\ Started(last')) => last'.out_folder \notin folders ]_vars

-----------------------------------------------------------------------------
(* Properties of the store (SpecStore) *)

\* the entries a history file holds
HistOf(file) == IF file.kind = "list" THEN file.entries ELSE <<>>

\* C6: a run that completes appends exactly one entry to the end of the
\* history and leaves the entries before it as they were; saving and loading
\* settings leave the history file alone.
C6_HistoryAppendOnly ==
    [][ /\ (IsRun /\ last'.outcome = "Done") =>
              /\ historyFile'.kind = "list"
              /\ Len(HistOf(historyFile')) = Len(HistOf(historyFile)) + 1
              /\ IsPrefix(HistOf(historyFile), HistOf(historyFile'))
              /\ historyFile'.entries[Len(historyFile'.entries)].archive = last'.zip_path
        /\ (last'.op \in {"save_settings_action", "load_settings_action"} /\ ~IsRun) =>
              historyFile' = historyFile
      ]_vars

\* the second run of a session appended after the entry of the first and of
\* one an earlier session left, with settings saved in between
C6_Witness ==
    /\ last.outcome = "Done"
    /\ settingsFile.kind = "dict"
    /\ historyFile.kind = "list"
    /\ Len(historyFile.entries) = 3
    /\ historyFile.entries[1] = OldEntry

\* C7: whatever the settings file and the history file hold, load_settings
\* does not raise and takes a missing, unreadable or malformed file for no
\* data, and a run that gets to the history step and can write the file
\* finishes and reports success.
C7_ReadFailureNeverFatal ==
    /\ ~load_settings(settingsFile).raised
    /\ settingsFile.kind \in {"missing", "unreadable", "malformed"} =>
          load_settings(settingsFile).kind = "falsy"
    /\ (Archived(last) /\ last.outcome # "HistoryWriteFailure") =>
          /\ last.outcome = "Done"
          /\ last.reported
          /\ ~last.raised

-----------------------------------------------------------------------------
(* Properties of parse_apartments (SpecParse) *)

\* a character that separates tokens
Delim(ch) == ch = "," \/ ch \in Whitespace

\* the tokens of a text, as <<first, last>> positions
TokenSpans(text) ==
    { sp \in (1..Len(text)) \X (1..Len(text)) :
        /\ sp[1] <= sp[2]
        /\ \A i \in sp[1]..sp[2] : ~Delim(text[i])
        /\ sp[1] = 1 \/ Delim(text[sp[1] - 1])
        /\ sp[2] = Len(text) \/ Delim(text[sp[2] + 1]) }

\* the decimal digits of a token
DecimalsOf(text, sp) == SelectSeq(SubSeq(text, sp[1], sp[2]), IsDecimal)

\* where the first token that yields id starts
FirstAt(text, id) ==
    LET at == { sp[1] : sp \in { q \in TokenSpans(text) : DecimalsOf(text, q) = id } }
    IN  CHOOSE i \in at : \A j \in at : i <= j

\* C4: the result has no identifier twice; every identifier is the non-empty
\* string of the decimal digits of one token; every token with a digit gives
\* an identifier; identifiers come in the order of their first tokens.
C4_Normalised ==
    parse.pc = "returned" =>
        LET text == parse.text
            ids  == parse.uniq
            from == { DecimalsOf(text, sp) : sp \in TokenSpans(text) } \ {<<>>}
        IN  /\ NoDup(ids)
            /\ \A k \in 1..Len(ids) :
                  /\ ids[k] # <<>>
                  /\ \A i \in 1..Len(ids[k]) : IsDecimal(ids[k][i])
            /\ Range(ids) = from
            /\ \A a, b \in 1..Len(ids) :
                  (a < b /\ Range(ids) = from) => FirstAt(text, ids[a]) < FirstAt(text, ids[b])
            /\ text = ExampleText =>
                  ids = << <<"1", "2">>, <<"1", "3">>, <<"1", "4">> >>

-----------------------------------------------------------------------------
(* Properties of random_datetime_between (SpecSampler) *)

\* calendar and clock order, field by field
DateLT(a, b) ==
    \/ a.year < b.year
    \/ a.year = b.year /\ a.month < b.month
    \/ a.year = b.year /\ a.month = b.month /\ a.day < b.day

TimeLT(a, b) ==
    \/ a.hour < b.hour
    \/ a.hour = b.hour /\ a.minute < b.minute
    \/ a.hour = b.hour /\ a.minute = b.minute /\ a.second < b.second

DateOf(dt) == [year |-> dt.year, month |-> dt.month, day |-> dt.day]

MinuteOfDay(t) == t.hour * 60 + t.minute

\* C5: the returned date lies in [start_date, end_date], and is start_date
\* when end_date < start_date; the returned time has no seconds and, with the
\* bounds cut to whole minutes as well, lies in [start_time, end_time], and is
\* the minute of start_time when end_time < start_time.
C5_WithinWindow ==
    sampler.pc = "returned" =>
        LET o  == sampler.out
            sd == sampler.start_date
            ed == sampler.end_date
            st == sampler.start_time
            et == sampler.end_time
        IN  /\ o.second = 0
            /\ o.hour \in 0..23
            /\ o.minute \in 0..59
            /\ ~DateLT(ed, sd) => ~DateLT(DateOf(o), sd) /\ ~DateLT(ed, DateOf(o))
            /\ DateLT(ed, sd) => DateOf(o) = sd
            /\ ~TimeLT(et, st) =>
                  MinuteOfDay(st) <= MinuteOfDay(o) /\ MinuteOfDay(o) <= MinuteOfDay(et)
            /\ TimeLT(et, st) => o.hour = st.hour /\ o.minute = st.minute

\* both windows reversed: the date and the minute of the start are returned
\* (29 February 2024, and 08:00 for a start of 08:00:45)
C5_Witness ==
    /\ sampler.pc = "returned"
    /\ DateLT(sampler.end_date, sampler.start_date)
    /\ TimeLT(sampler.end_time, sampler.start_time)
    /\ sampler.start_date = [year |-> 2024, month |-> 2, day |-> 29]
    /\ sampler.start_time = [hour |-> 8, minute |-> 0, second |-> 45]
    /\ DateOf(sampler.out) = sampler.start_date
    /\ sampler.out.hour = 8
    /\ sampler.out.minute = 0

-----------------------------------------------------------------------------
(* Properties of rendering (SpecRender) *)

\* how often a pattern occurs in a text
Count(text, pat) == Cardinality({ i \in 1..Len(text) : MatchAt(text, pat, i) })

\* 0 for a fixed phrase, 1..3 for the placeholders in the order claimed
Rank(old) ==
    IF old = PhFlat THEN 1 ELSE IF old = PhDate THEN 2 ELSE IF old = PhTime THEN 3 ELSE 0

\* C9: the fixed phrases are replaced before the placeholders and the
\* placeholders in the order flat, date, time; a template with none of the
\* phrases and placeholders comes out unchanged; a placeholder the program
\* does not know stays in the text as it is.
C9_RenderOrder ==
    render.pc \in {"rendering", "done"} =>
        LET ap == render.applied
        IN  /\ \A i, j \in 1..Len(ap) :
                  i < j => /\ Rank(ap[i]) <= Rank(ap[j])
                           /\ Rank(ap[i]) > 0 => Rank(ap[i]) < Rank(ap[j])
            /\ render.pc = "done" =>
                  /\ \E h, i, j, k \in 1..Len(ap) :
                        /\ h < i /\ i < j /\ j < k
                        /\ Rank(ap[h]) = 0
                        /\ ap[i] = PhFlat /\ ap[j] = PhDate /\ ap[k] = PhTime
                  /\ (\A i \in 1..Len(ap) : ~Contains(render.template, ap[i])) =>
                        render.text = render.template
            /\ Count(render.text, PhUnknown) = Count(render.template, PhUnknown)

\* a template of an unknown and a malformed placeholder, rendered in full
C9_Witness ==
    /\ render.pc = "done"
    /\ render.template = PhUnknown \o <<"{", "{", "f", "l", "a", "t", "}">>
    /\ render.text = render.template

=============================================================================
